---- MODULE Spec2Model ----
(***************************************************************************)
(* Model of api_handler.py: the live polling loop `run`, the backfill loop *)
(* `run_handle_missing`, the aggregated-data directory (Store), the        *)
(* missing_data_queue.csv file (GapQueue), the shared threading.Lock and   *)
(* the threading.Event used for shutdown.                                  *)
(*                                                                         *)
(* Times are integers counting seconds.  Samples of the remote API sit on  *)
(* whole minutes.  A line of the queue file is a minute-precision string   *)
(* ("%Y-%m-%dT%H:%M"), modelled as the minute index; a file name of the    *)
(* Store is a second-precision string, modelled as the second count; the   *)
(* JSON body of a record carries TimeUTC in epoch milliseconds.            *)
(***************************************************************************)
EXTENDS Integers, Sequences, FiniteSets, TLC

\* Horizon of the remote API, in minutes: sample times are 0..MaxT minutes.
MaxT == 4

\* At most this many requests or file operations fail in one run.
MaxFaults == 1

\* The ghost counter of comparisons saturates here (0, 1, "2 or more").
CountCap == 2

SecondsPerMinute == 60
SecondsPerDay == 86400
MillisPerSecond == 1000
\* pull_data(..., data_row_limit=5)
DataRowLimit == 5
\* pull_data(..., retries=10)
Retries == 10

VARIABLES
    store,                \* aggregatedData/: file name -> file body
    queueExists,          \* os.path.isfile(missing_data_queue.csv)
    queueFile,            \* lines of missing_data_queue.csv
    lock,                 \* owner of threading.Lock: "none", "live", "missing"
    event,                \* threading.Event
    apiHead,              \* remote API: Minutes1UTC of the newest sample served
    couldNotSave,         \* file names logged with "Could not save ..."
    faults,               \* failed requests and failed file operations so far
    pcLive,               \* position of thread PullLive (run)
    last_name,            \* run/get_last_data_entry: datetime_str[-1]
    last_data_entry,      \* run: last_data_entry (None or the parsed record)
    last_data_entry_time, \* run: last_data_entry_time
    data,                 \* run: data
    time_delta,           \* run: time_delta
    data_agg,             \* run: data_agg
    compares,             \* number of comparisons made by run, saturating
    pcMiss,               \* position of thread PullMissing (run_handle_missing)
    missing_times,        \* run_handle_missing: missing_times
    idx,                  \* run_handle_missing: position of the for loop
    failed_attempts,      \* run_handle_missing: failed_attempts
    dataM,                \* run_handle_missing: data
    aggM,                 \* run_handle_missing: data_agg
    lateEntry             \* a pull_data call of the for loop began with the event set

diskVars == <<store, queueExists, queueFile>>
liveVars == <<pcLive, last_name, last_data_entry, last_data_entry_time, data,
              time_delta, data_agg, compares>>
missVars == <<pcMiss, missing_times, idx, failed_attempts, dataM, aggM,
              lateEntry>>
vars == <<store, queueExists, queueFile, lock, event, apiHead, couldNotSave,
          faults,
          pcLive, last_name, last_data_entry, last_data_entry_time, data,
          time_delta, data_agg, compares,
          pcMiss, missing_times, idx, failed_attempts, dataM, aggM,
          lateEntry>>

----------------------------------------------------------------------------
\* Values

None == [none |-> TRUE]
\* time_delta before its first assignment
Unset == -1
\* A file that open(..., 'w') created or truncated and nothing was written to
EmptyFile == [empty |-> TRUE]
EmptyStore == [f \in {} |-> EmptyFile]

Abs(x) == IF x < 0 THEN -x ELSE x
Min2(a, b) == IF a < b THEN a ELSE b
MaxOf(S) == CHOOSE m \in S : \A x \in S : x <= m
SeqToSet(s) == {s[i] : i \in 1..Len(s)}

ApiMinutes == 0..MaxT
ApiTimes == {m * SecondsPerMinute : m \in ApiMinutes}
\* datetime.now(): any instant, on a minute or between two
NowOffsets == {0, 30}
NowTimes == {m * SecondsPerMinute + o : m \in ApiMinutes, o \in NowOffsets}

----------------------------------------------------------------------------
\* Conversions

\* strftime("%Y-%m-%dT%H:%M"): minute precision, the seconds are dropped
StrfMinute(t) == t \div SecondsPerMinute
\* datetime.strptime(s, '%Y-%m-%dT%H:%M')
StrpMinute(m) == m * SecondsPerMinute
\* f'{str(data["TimeUTC"][0]).replace(" ","T")}Z.json'
FileName(rec) == rec.TimeUTC
\* data.to_json(): timestamps are written as epoch milliseconds
ToJson(rec) == [TimeUTC |-> rec.TimeUTC * MillisPerSecond,
                AggrigatePeriodMinutes |-> rec.AggrigatePeriodMinutes]
\* datetime.utcfromtimestamp(last_data_entry['TimeUTC'][0]/1000)
UtcFromTimestamp(entry) == entry.TimeUTC \div MillisPerSecond

\* timedelta.seconds: the seconds component, the whole days are not in it
TdSeconds(td) == td % SecondsPerDay

----------------------------------------------------------------------------
\* pull_data

\* Variant: the request ends at the missing minute itself
AdjustEndTime_NoShift(end_time) == StrfMinute(StrpMinute(end_time))

\* end_time + one minute, formatted back to the minute
AdjustEndTime(end_time) ==
    StrfMinute(StrpMinute(end_time) + SecondsPerMinute)

\* The remote API for ?end=E: row 0 is the sample one minute before E
\* ("API starts one minute late").
ApiEndResponse(end) ==
    [Minutes1UTC |-> StrpMinute(end) - SecondsPerMinute, rows |-> DataRowLimit]

\* The remote API for ?limit=N: row 0 is the newest sample.
ApiLiveResponse(head) == [Minutes1UTC |-> head, rows |-> DataRowLimit]

\* What one call of pull_data ends in for a response with response.ok = ok:
\* the data, ConnectionError when retries = 0, and otherwise the
\* AttributeError of config.retry_counter in the warning before the retry.
PullOutcome(ok, retries) ==
    IF ok THEN "data"
    ELSE IF retries = 0 THEN "ConnectionError"
    ELSE "AttributeError"

\* aggregate_data: TimeUTC is row 0's time, the period is the row count
aggregate_data(d) ==
    [TimeUTC |-> d.Minutes1UTC, AggrigatePeriodMinutes |-> d.rows]

----------------------------------------------------------------------------
\* Store and queue file operations

\* open(file_path, 'w'): creates the file or truncates the one there
OpenW(st, name) ==
    [f \in DOMAIN st \cup {name} |-> IF f = name THEN EmptyFile ELSE st[f]]
\* f.write(data.to_json())
WriteBody(st, name, body) ==
    [f \in DOMAIN st \cup {name} |-> IF f = name THEN body ELSE st[f]]

\* A record file as save_aggregated_data leaves it
RecordAt(t) == ToJson([TimeUTC |-> t, AggrigatePeriodMinutes |-> DataRowLimit])
HasRecord(st, t) == t \in DOMAIN st /\ st[t] = RecordAt(t)

----------------------------------------------------------------------------
\* run: the conditions and the gap lines

\* Variant: the baseline is not asked for
ReconcileCond_NoBaseline(td, lde) == td > SecondsPerMinute

\* if time_delta > pd.Timedelta(minutes=1) and last_data_entry is not None
ReconcileCond(td, lde) == td > SecondsPerMinute /\ lde # None

\* for t in range(int(time_delta.seconds/60)):
\*     missing_time = last_data_entry_time + pd.Timedelta(minutes=(t+1))
\*     f.write(f'{missing_time.strftime("%Y-%m-%dT%H:%M")}\n')
GapLines(last, td) ==
    [t \in 1..(TdSeconds(td) \div SecondsPerMinute) |->
        StrfMinute(last + t * SecondsPerMinute)]

\* Variant: every batch is persisted
PersistCond_Always(td) == TRUE
\* Variant: a batch is persisted only when more than a minute has passed
PersistCond_OverAMinute(td) == td > SecondsPerMinute

\* if time_delta != pd.Timedelta(minutes=0)
PersistCond(td) == td # 0

----------------------------------------------------------------------------
\* Initial state: the disk as an earlier run may have left it.

InitDisks ==
    {  \* first run: no record, no queue file
       [store |-> EmptyStore, exists |-> FALSE, lines |-> <<>>],
       \* an earlier run stored minute 0 and never saw a gap
       [store |-> [f \in {0} |-> RecordAt(f)], exists |-> FALSE, lines |-> <<>>],
       \* an earlier run's queue was drained
       [store |-> [f \in {0} |-> RecordAt(f)], exists |-> TRUE, lines |-> <<>>],
       \* an earlier run went from minute 0 to minute 2 and stopped before
       \* the backfill of what it had queued
       [store |-> [f \in {0, 2 * SecondsPerMinute} |-> RecordAt(f)],
        exists |-> TRUE, lines |-> GapLines(0, 2 * SecondsPerMinute)] }

\* The disk after an outage: an earlier run stored its last record one day
\* before minute 0 and nothing ran since.
LongOutageDisks ==
    { [store |-> [f \in {-SecondsPerDay} |-> RecordAt(f)],
       exists |-> FALSE, lines |-> <<>>] }

\* The program starts on one of the disks: the threads are at their first
\* statement, the locals are not assigned yet.
InitOn(disks) ==
    /\ \E d \in disks :
          /\ store = d.store
          /\ queueExists = d.exists
          /\ queueFile = d.lines
          /\ apiHead \in {t \in ApiTimes : \A f \in DOMAIN d.store : f <= t}
    /\ lock = "none"
    /\ event = FALSE
    /\ couldNotSave = {}
    /\ faults = 0
    /\ pcLive = "L_list"
    /\ last_name = 0
    /\ last_data_entry = None
    /\ last_data_entry_time = 0
    /\ data = None
    /\ time_delta = Unset
    /\ data_agg = None
    /\ compares = 0
    /\ pcMiss = "M_check"
    /\ missing_times = <<>>
    /\ idx = 0
    /\ failed_attempts = <<>>
    /\ dataM = None
    /\ aggM = None
    /\ lateEntry = FALSE

Init == InitOn(InitDisks)

\* The start after an outage of a day
LongOutageInit == InitOn(LongOutageDisks)

\* Whether the next request or file operation may succeed (TRUE) or fail
Oks == IF faults < MaxFaults THEN BOOLEAN ELSE {TRUE}

----------------------------------------------------------------------------
\* Main thread

\* __main__: the line 'exit' on stdin sets the event.
SetEvent ==
    /\ event = FALSE
    /\ event' = TRUE
    /\ UNCHANGED <<diskVars, lock, apiHead, couldNotSave, liveVars, missVars>>
    /\ UNCHANGED faults

----------------------------------------------------------------------------
\* Thread PullLive: run

\* get_last_data_entry, os.listdir and the sort, done before the lock is
\* taken; with no .json file run falls back to datetime.now().
L_List ==
    /\ pcLive = "L_list"
    /\ IF DOMAIN store = {}
       THEN /\ last_data_entry' = None
            /\ \E now \in NowTimes : last_data_entry_time' = now
            /\ pcLive' = "L_check"
            /\ UNCHANGED last_name
       ELSE /\ last_name' = MaxOf(DOMAIN store)
            /\ pcLive' = "L_acq_read"
            /\ UNCHANGED <<last_data_entry, last_data_entry_time>>
    /\ UNCHANGED <<diskVars, lock, event, apiHead, couldNotSave, data,
                   time_delta, data_agg, compares, missVars>>
    /\ UNCHANGED faults

\* with lock:
L_AcqRead ==
    /\ pcLive = "L_acq_read"
    /\ lock = "none"
    /\ lock' = "live"
    /\ pcLive' = "L_read"
    /\ UNCHANGED <<diskVars, event, apiHead, couldNotSave, last_name,
                   last_data_entry, last_data_entry_time, data, time_delta,
                   data_agg, compares, missVars>>
    /\ UNCHANGED faults

\* f.read() under the lock, then pd.read_json and utcfromtimestamp; an empty
\* file makes pd.read_json raise, which ends the thread.
L_Read ==
    /\ pcLive = "L_read"
    /\ lock' = "none"
    /\ IF store[last_name] = EmptyFile
       THEN /\ pcLive' = "L_dead"
            /\ UNCHANGED <<last_data_entry, last_data_entry_time>>
       ELSE /\ last_data_entry' = store[last_name]
            /\ last_data_entry_time' = UtcFromTimestamp(store[last_name])
            /\ pcLive' = "L_check"
    /\ UNCHANGED <<diskVars, event, apiHead, couldNotSave, last_name, data,
                   time_delta, data_agg, compares, missVars>>
    /\ UNCHANGED faults

\* Variant: the loop does not look at the event
L_Check_NoBreak ==
    /\ pcLive = "L_check"
    /\ pcLive' = "L_fetch"
    /\ UNCHANGED <<diskVars, lock, event, apiHead, couldNotSave, last_name,
                   last_data_entry, last_data_entry_time, data, time_delta,
                   data_agg, compares, missVars>>
    /\ UNCHANGED faults

\* while True: if event.is_set(): break
L_Check ==
    /\ pcLive = "L_check"
    /\ pcLive' = IF event THEN "L_done" ELSE "L_fetch"
    /\ UNCHANGED <<diskVars, lock, event, apiHead, couldNotSave, last_name,
                   last_data_entry, last_data_entry_time, data, time_delta,
                   data_agg, compares, missVars>>
    /\ UNCHANGED faults

\* Variant: the call is not in a try, the exception ends the thread
L_Fetch_NoExcept ==
    /\ pcLive = "L_fetch"
    /\ \E head \in {t \in ApiTimes : t >= apiHead}, ok \in Oks :
          /\ apiHead' = head
          /\ faults' = faults + (IF ok THEN 0 ELSE 1)
          /\ IF PullOutcome(ok, Retries) = "data"
             THEN /\ data' = ApiLiveResponse(head)
                  /\ pcLive' = "L_compare"
             ELSE /\ pcLive' = "L_dead"
                  /\ UNCHANGED data
    /\ UNCHANGED <<diskVars, lock, event, couldNotSave, last_name,
                   last_data_entry, last_data_entry_time, time_delta,
                   data_agg, compares, missVars>>

\* data = pull_data(config, retries=10, data_row_limit=5), in the try.  Time
\* has passed since the last request: the newest sample of the remote API
\* is the one of then or a later one.
L_Fetch ==
    /\ pcLive = "L_fetch"
    /\ \E head \in {t \in ApiTimes : t >= apiHead}, ok \in Oks :
          /\ apiHead' = head
          /\ faults' = faults + (IF ok THEN 0 ELSE 1)
          /\ IF PullOutcome(ok, Retries) = "data"
             THEN /\ data' = ApiLiveResponse(head)
                  /\ pcLive' = "L_compare"
             ELSE \* except: logging.error(...); time.sleep(10); continue
                  /\ pcLive' = "L_check"
                  /\ UNCHANGED data
    /\ UNCHANGED <<diskVars, lock, event, couldNotSave, last_name,
                   last_data_entry, last_data_entry_time, time_delta,
                   data_agg, compares, missVars>>

\* if time_delta != 0: last_data_entry_time = data['Minutes1UTC'][0];
\* data_agg = aggregate_data(data); save_aggregated_data(...); and then
\* time.sleep(config.pull_delay) in both cases
Advance(td) ==
    IF PersistCond(td)
    THEN /\ last_data_entry_time' = data.Minutes1UTC
         /\ data_agg' = aggregate_data(data)
         /\ pcLive' = "L_acq_s"
    ELSE /\ pcLive' = "L_check"
         /\ UNCHANGED <<last_data_entry_time, data_agg>>

\* time_delta = abs(last_data_entry_time - data['Minutes1UTC'][0]) and the
\* test of the first if; when it is false, the second if follows
L_Compare ==
    /\ pcLive = "L_compare"
    /\ time_delta' = Abs(last_data_entry_time - data.Minutes1UTC)
    /\ compares' = Min2(compares + 1, CountCap)
    /\ IF ReconcileCond(time_delta', last_data_entry)
       THEN /\ pcLive' = "L_acq_q"
            /\ UNCHANGED <<last_data_entry_time, data_agg>>
       ELSE Advance(time_delta')
    /\ UNCHANGED <<diskVars, lock, event, apiHead, couldNotSave, last_name,
                   last_data_entry, data, missVars>>
    /\ UNCHANGED faults

\* with lock:
L_AcqQ ==
    /\ pcLive = "L_acq_q"
    /\ lock = "none"
    /\ lock' = "live"
    /\ pcLive' = "L_append"
    /\ UNCHANGED <<diskVars, event, apiHead, couldNotSave, last_name,
                   last_data_entry, last_data_entry_time, data, time_delta,
                   data_agg, compares, missVars>>
    /\ UNCHANGED faults

\* with open(queue, 'a') as f: one line per missing time; the lock is
\* released on leaving the block, and the second if follows
L_Append ==
    /\ pcLive = "L_append"
    /\ queueExists' = TRUE
    /\ queueFile' = queueFile \o GapLines(last_data_entry_time, time_delta)
    /\ lock' = "none"
    /\ Advance(time_delta)
    /\ UNCHANGED <<store, event, apiHead, couldNotSave, last_name,
                   last_data_entry, data, time_delta, compares, missVars>>
    /\ UNCHANGED faults

\* save_aggregated_data: with lock:
L_AcqS ==
    /\ pcLive = "L_acq_s"
    /\ lock = "none"
    /\ lock' = "live"
    /\ pcLive' = "L_open"
    /\ UNCHANGED <<diskVars, event, apiHead, couldNotSave, last_name,
                   last_data_entry, last_data_entry_time, data, time_delta,
                   data_agg, compares, missVars>>
    /\ UNCHANGED faults

\* open(file_path, 'w'); when it raises, the except logs and the lock is
\* released
L_Open ==
    /\ pcLive = "L_open"
    /\ \E ok \in Oks :
          /\ faults' = faults + (IF ok THEN 0 ELSE 1)
          /\ IF ok
             THEN /\ store' = OpenW(store, FileName(data_agg))
                  /\ pcLive' = "L_write"
                  /\ UNCHANGED <<lock, couldNotSave>>
             ELSE /\ couldNotSave' = couldNotSave \cup {FileName(data_agg)}
                  /\ lock' = "none"
                  /\ pcLive' = "L_check"
                  /\ UNCHANGED store
    /\ UNCHANGED <<queueExists, queueFile, event, apiHead, last_name,
                   last_data_entry, last_data_entry_time, data, time_delta,
                   data_agg, compares, missVars>>

\* f.write(data.to_json()); when it raises, the file stays as open left it;
\* then time.sleep(config.pull_delay)
L_Write ==
    /\ pcLive = "L_write"
    /\ \E ok \in Oks :
          /\ faults' = faults + (IF ok THEN 0 ELSE 1)
          /\ IF ok
             THEN /\ store' = WriteBody(store, FileName(data_agg), ToJson(data_agg))
                  /\ UNCHANGED couldNotSave
             ELSE /\ couldNotSave' = couldNotSave \cup {FileName(data_agg)}
                  /\ UNCHANGED store
    /\ lock' = "none"
    /\ pcLive' = "L_check"
    /\ UNCHANGED <<queueExists, queueFile, event, apiHead, last_name,
                   last_data_entry, last_data_entry_time, data, time_delta,
                   data_agg, compares, missVars>>

Live ==
    \/ L_List \/ L_AcqRead \/ L_Read \/ L_Check \/ L_Fetch \/ L_Compare
    \/ L_AcqQ \/ L_Append \/ L_AcqS \/ L_Open \/ L_Write

----------------------------------------------------------------------------
\* Thread PullMissing: run_handle_missing

\* The for loop moves to the next line, or leaves for the rewrite.
AfterEntry(i, lines) == IF i + 1 > Len(lines) THEN "M_acq_rw" ELSE "M_fetch"

\* What the rewrite leaves in the queue file: open(queue, 'w') empties it,
\* and f.write(failed_attempts) is given a list and raises before a byte is
\* written.
RewriteLines(failed) == <<>>

\* while True: if event.is_set(): break; if not os.path.isfile(queue): sleep
M_Check ==
    /\ pcMiss = "M_check"
    /\ pcMiss' = IF event THEN "M_done"
                 ELSE IF ~queueExists THEN "M_check"
                 ELSE "M_acq_read"
    /\ UNCHANGED <<diskVars, lock, event, apiHead, couldNotSave, liveVars,
                   missing_times, idx, failed_attempts, dataM, aggM, lateEntry>>
    /\ UNCHANGED faults

\* with lock:
M_AcqRead ==
    /\ pcMiss = "M_acq_read"
    /\ lock = "none"
    /\ lock' = "missing"
    /\ pcMiss' = "M_read"
    /\ UNCHANGED <<diskVars, event, apiHead, couldNotSave, liveVars,
                   missing_times, idx, failed_attempts, dataM, aggM, lateEntry>>
    /\ UNCHANGED faults

\* Variant: the for loop runs inside the with lock block of the read
M_Read_KeepLock ==
    /\ pcMiss = "M_read"
    /\ missing_times' = queueFile
    /\ IF Len(queueFile) = 0
       THEN /\ pcMiss' = "M_check"
            /\ lock' = "none"
            /\ UNCHANGED <<idx, failed_attempts>>
       ELSE /\ failed_attempts' = <<>>
            /\ idx' = 1
            /\ pcMiss' = "M_fetch"
            /\ UNCHANGED lock
    /\ UNCHANGED <<diskVars, event, apiHead, couldNotSave, liveVars, dataM,
                   aggM, lateEntry>>
    /\ UNCHANGED faults

\* missing_times = f.read().splitlines(); empty: sleep and continue;
\* otherwise failed_attempts = [] and the for loop starts
M_Read ==
    /\ pcMiss = "M_read"
    /\ missing_times' = queueFile
    /\ lock' = "none"
    /\ IF Len(queueFile) = 0
       THEN /\ pcMiss' = "M_check"
            /\ UNCHANGED <<idx, failed_attempts>>
       ELSE /\ failed_attempts' = <<>>
            /\ idx' = 1
            /\ pcMiss' = "M_fetch"
    /\ UNCHANGED <<diskVars, event, apiHead, couldNotSave, liveVars, dataM,
                   aggM, lateEntry>>
    /\ UNCHANGED faults

\* data = pull_data(config, end_time = missing_time) in the try; on an
\* exception the line is kept in failed_attempts and the loop continues
M_Fetch ==
    /\ pcMiss = "M_fetch"
    /\ \E ok \in Oks :
          /\ faults' = faults + (IF ok THEN 0 ELSE 1)
          /\ IF PullOutcome(ok, Retries) = "data"
             THEN /\ dataM' = ApiEndResponse(AdjustEndTime(missing_times[idx]))
                  /\ aggM' = aggregate_data(dataM')
                  /\ pcMiss' = "M_acq_s"
                  /\ UNCHANGED <<idx, failed_attempts>>
             ELSE /\ failed_attempts' = Append(failed_attempts, missing_times[idx])
                  /\ idx' = idx + 1
                  /\ pcMiss' = AfterEntry(idx, missing_times)
                  /\ UNCHANGED <<dataM, aggM>>
    /\ lateEntry' = (lateEntry \/ event)
    /\ UNCHANGED <<diskVars, lock, event, apiHead, couldNotSave, liveVars,
                   missing_times>>

\* save_aggregated_data: with lock:
M_AcqS ==
    /\ pcMiss = "M_acq_s"
    /\ lock = "none"
    /\ lock' = "missing"
    /\ pcMiss' = "M_open"
    /\ UNCHANGED <<diskVars, event, apiHead, couldNotSave, liveVars,
                   missing_times, idx, failed_attempts, dataM, aggM, lateEntry>>
    /\ UNCHANGED faults

\* open(file_path, 'w')
M_Open ==
    /\ pcMiss = "M_open"
    /\ \E ok \in Oks :
          /\ faults' = faults + (IF ok THEN 0 ELSE 1)
          /\ IF ok
             THEN /\ store' = OpenW(store, FileName(aggM))
                  /\ pcMiss' = "M_write"
                  /\ UNCHANGED <<lock, couldNotSave, idx>>
             ELSE /\ couldNotSave' = couldNotSave \cup {FileName(aggM)}
                  /\ lock' = "none"
                  /\ idx' = idx + 1
                  /\ pcMiss' = AfterEntry(idx, missing_times)
                  /\ UNCHANGED store
    /\ UNCHANGED <<queueExists, queueFile, event, apiHead, liveVars,
                   missing_times, failed_attempts, dataM, aggM, lateEntry>>

\* f.write(data.to_json()), then time.sleep(1) and the next line
M_Write ==
    /\ pcMiss = "M_write"
    /\ \E ok \in Oks :
          /\ faults' = faults + (IF ok THEN 0 ELSE 1)
          /\ IF ok
             THEN /\ store' = WriteBody(store, FileName(aggM), ToJson(aggM))
                  /\ UNCHANGED couldNotSave
             ELSE /\ couldNotSave' = couldNotSave \cup {FileName(aggM)}
                  /\ UNCHANGED store
    /\ lock' = "none"
    /\ idx' = idx + 1
    /\ pcMiss' = AfterEntry(idx, missing_times)
    /\ UNCHANGED <<queueExists, queueFile, event, apiHead, liveVars,
                   missing_times, failed_attempts, dataM, aggM, lateEntry>>

\* with lock: (the rewrite)
M_AcqRw ==
    /\ pcMiss = "M_acq_rw"
    /\ lock = "none"
    /\ lock' = "missing"
    /\ pcMiss' = "M_rewrite"
    /\ UNCHANGED <<diskVars, event, apiHead, couldNotSave, liveVars,
                   missing_times, idx, failed_attempts, dataM, aggM, lateEntry>>
    /\ UNCHANGED faults

\* with open(queue, 'w') as f: if len(failed_attempts) > 0:
\* f.write(failed_attempts) raises TypeError, which leaves both with blocks
\* and ends the thread; else the loop starts over
M_Rewrite ==
    /\ pcMiss = "M_rewrite"
    /\ queueFile' = RewriteLines(failed_attempts)
    /\ lock' = "none"
    /\ pcMiss' = IF Len(failed_attempts) > 0 THEN "M_dead" ELSE "M_check"
    /\ UNCHANGED <<store, queueExists, event, apiHead, couldNotSave, liveVars,
                   missing_times, idx, failed_attempts, dataM, aggM, lateEntry>>
    /\ UNCHANGED faults

Missing ==
    \/ M_Check \/ M_AcqRead \/ M_Read \/ M_Fetch \/ M_AcqS
    \/ M_Open \/ M_Write \/ M_AcqRw \/ M_Rewrite

----------------------------------------------------------------------------
Next == Live \/ Missing \/ SetEvent

Spec == Init /\ [][Next]_vars

\* Both threads are scheduled: a thread that can take a step takes one.  The
\* sleeps are finite and every request returns or raises.
FairSpec == Spec /\ WF_vars(Live) /\ WF_vars(Missing)

\* The program started after an outage of a day
LongOutageSpec == LongOutageInit /\ [][Next]_vars

TypeOK ==
    /\ lock \in {"none", "live", "missing"}
    /\ event \in BOOLEAN
    /\ queueExists \in BOOLEAN
    /\ couldNotSave \subseteq {t - d : t \in ApiTimes, d \in {0, SecondsPerDay}}
    /\ faults \in 0..MaxFaults
    /\ apiHead \in ApiTimes
    /\ compares \in 0..CountCap
    /\ idx \in Nat
    /\ lateEntry \in BOOLEAN
    /\ pcMiss \in {"M_fetch", "M_acq_s", "M_open", "M_write"}
          => idx \in 1..Len(missing_times)
    /\ \A f \in DOMAIN store : store[f] = EmptyFile \/ store[f] = RecordAt(f)

----------------------------------------------------------------------------
\* Properties

LiveStep == pcLive' # pcLive
MissStep == pcMiss' # pcMiss

\* The minutes strictly between t0 and t1, oldest first, as queue lines
MinutesBetween(t0, t1) ==
    [i \in 1..((t1 - t0) \div SecondsPerMinute - 1) |-> StrfMinute(t0) + i]

\* The step that appends the gap lines of an iteration whose batch is k >= 2
\* minutes after the last known time
GapAppendStep ==
    /\ pcLive = "L_append"
    /\ LiveStep
    /\ data.Minutes1UTC - last_data_entry_time >= 2 * SecondsPerMinute

\* C1: gap sizing.  With a baseline and a batch k >= 2 minutes after the last
\* known time T0, Reconcile appends exactly the k - 1 minutes T0+1 .. T0+k-1.
C1_GapSizing ==
    [][GapAppendStep =>
         queueFile' = queueFile \o
            MinutesBetween(last_data_entry_time, data.Minutes1UTC)]_vars

\* The rewrite step of a backfill cycle
RewriteStep == pcMiss = "M_rewrite" /\ MissStep

\* The lines appended to the queue file since the cycle read it
AppendedSinceRead ==
    {queueFile[i] : i \in (Len(missing_times) + 1)..Len(queueFile)}

\* C2: no gap entry is lost to interleaving.  An entry appended between the
\* worker's Read and its Rewrite is processed in that cycle or is still in
\* the queue after the Rewrite.  (Stated for the cycles in which every fetch
\* succeeded, so that the Rewrite itself runs to its end.)
C2_NoGapEntryLost ==
    [][(RewriteStep /\ failed_attempts = <<>>) =>
         \A e \in AppendedSinceRead :
            e \in SeqToSet(missing_times) \/ e \in SeqToSet(queueFile')]_vars

\* C3: partial backfill retention.  When M >= 1 of the N entries read failed
\* (and nothing was appended meanwhile), the rewritten queue holds exactly
\* the M failed entries in their order.
C3_PartialRetention ==
    [][(RewriteStep /\ Len(failed_attempts) >= 1 /\ queueFile = missing_times)
          => queueFile' = failed_attempts]_vars

\* The entries of the cycle were all fetched and none of their saves failed
CycleAllSucceeded ==
    /\ Len(missing_times) >= 1
    /\ failed_attempts = <<>>
    /\ \A i \in 1..Len(missing_times) :
          StrpMinute(missing_times[i]) \notin couldNotSave

\* C4: backfill convergence.  A cycle over N entries that all fetch and save,
\* with nothing appended meanwhile, leaves the queue empty and a record in
\* the Store at each of the N timestamps.
C4_BackfillConvergence ==
    [][(RewriteStep /\ CycleAllSucceeded /\ queueFile = missing_times)
          => /\ queueFile' = <<>>
             /\ \A i \in 1..Len(missing_times) :
                   HasRecord(store', StrpMinute(missing_times[i]))]_vars

\* Witness of C4: a cycle over two or more entries has just ended that way.
C4_Witness ==
    /\ pcMiss = "M_check"
    /\ Len(missing_times) >= 2
    /\ idx > Len(missing_times)
    /\ CycleAllSucceeded
    /\ queueFile = <<>>
    /\ \A i \in 1..Len(missing_times) :
          HasRecord(store, StrpMinute(missing_times[i]))

\* C5: no-op idempotence.  The iteration whose batch time equals the last
\* known time leaves the Store, the queue and the last known time as they
\* are and goes to sleep.
C5_NoOpIdempotence ==
    [][(pcLive = "L_compare" /\ LiveStep
          /\ data.Minutes1UTC = last_data_entry_time)
          => /\ UNCHANGED <<store, queueExists, queueFile, last_data_entry_time>>
             /\ pcLive' = "L_check"]_vars

\* Witness of C5: an iteration with a baseline ended with delta = 0.
C5_Witness ==
    /\ pcLive = "L_check"
    /\ compares >= 1
    /\ time_delta = 0
    /\ last_data_entry # None
    /\ data.Minutes1UTC = last_data_entry_time

\* run started on an empty Store and is in its loop
FirstRun ==
    /\ last_data_entry = None
    /\ pcLive \notin {"L_list", "L_acq_read", "L_read", "L_dead"}

\* run is in the first iteration of its loop
FirstIteration ==
    \/ compares = 0 /\ pcLive \in {"L_check", "L_fetch", "L_compare"}
    \/ compares = 1 /\ pcLive \in {"L_acq_q", "L_append", "L_acq_s",
                                   "L_open", "L_write"}

\* The first iteration is over and the second has not fetched yet: data is
\* still the first batch.
FirstIterationOver ==
    compares = 1 /\ pcLive \in {"L_check", "L_fetch", "L_done"}

\* C6: first-run suppression.  Started on an empty Store, the first
\* comparison appends nothing to the queue and does not enter Reconcile,
\* whatever the delta.
C6_FirstRunSuppression ==
    [][(FirstRun /\ FirstIteration /\ LiveStep)
          => /\ UNCHANGED <<queueExists, queueFile>>
             /\ pcLive' \notin {"L_acq_q", "L_append"}]_vars

\* Witness of C6: the first comparison of a first run found more than a
\* minute between the wall-clock baseline and the batch, and went on to
\* persist with no queue file made.
C6_Witness ==
    /\ FirstRun
    /\ compares = 1
    /\ pcLive = "L_acq_s"
    /\ time_delta > SecondsPerMinute
    /\ ~queueExists

\* C7: suppression is for the first comparison only.  Started on an empty
\* Store, with the baseline set by an earlier fetch, a batch two or more
\* minutes after the baseline enters Reconcile (and so queues the minutes
\* between).
C7_LaterGapsDetected ==
    [][(FirstRun /\ pcLive = "L_compare" /\ LiveStep /\ compares >= 1
          /\ data.Minutes1UTC - last_data_entry_time >= 2 * SecondsPerMinute)
          => pcLive' = "L_acq_q"]_vars

\* C8 as claimed: on a first run the first iteration writes no record, so
\* the Store is still empty when it is over.
C8_FirstIterationNoWrite ==
    (FirstRun /\ (FirstIteration \/ FirstIterationOver)) => DOMAIN store = {}

\* C8 amended: on a first run the first iteration sets the last known time
\* to the first batch time, makes no queue file, and writes the record of
\* the first batch unless the wall-clock baseline equals the batch time
\* (delta = 0); a record whose save did not fail is then in the Store.
C8_FirstIterationPersists ==
    (FirstRun /\ FirstIterationOver)
       => /\ last_data_entry_time = data.Minutes1UTC
          /\ ~queueExists
          /\ time_delta = 0 => DOMAIN store = {}
          /\ (time_delta # 0 /\ data.Minutes1UTC \notin couldNotSave)
                => HasRecord(store, data.Minutes1UTC)

\* Witness of C8: the first iteration of a first run is over and the record
\* of its batch is in the Store.
C8_Witness ==
    /\ FirstRun
    /\ FirstIterationOver
    /\ time_delta # 0
    /\ HasRecord(store, data.Minutes1UTC)
    /\ last_data_entry_time = data.Minutes1UTC

\* C9: the Store is append-only.  A record that is in the Store stays as it
\* is: no step removes, empties or replaces it.
C9_AppendOnly ==
    [][\A f \in DOMAIN store :
          store[f] # EmptyFile => (f \in DOMAIN store' /\ store'[f] = store[f])]_vars

\* The steps that read or write the Store or the queue file
LiveIO == {"L_list", "L_read", "L_append", "L_open", "L_write"}
MissIO == {"M_read", "M_open", "M_write", "M_rewrite"}

\* C10: mutual exclusion.  Every step of a loop that reads or writes the
\* Store or the queue file is taken while that loop holds the lock (so no
\* such step of one loop falls between the open and the write of the other).
C10_AllIOUnderLock ==
    [][/\ (LiveStep /\ pcLive \in LiveIO) => lock = "live"
       /\ (MissStep /\ pcMiss \in MissIO) => lock = "missing"]_vars

\* A call of pull_data by run ends in an exception
LiveFetchFails == pcLive = "L_fetch" /\ pcLive' = "L_check"
\* A call of pull_data by run_handle_missing ends in an exception
MissFetchFails == pcMiss = "M_fetch" /\ failed_attempts' # failed_attempts

\* The non-success responses the call of this step received (faults counts
\* them, and a fetch step does no file operation)
NonSuccessResponses == faults' - faults

\* C11: bounded retry.  A call of pull_data with retry count R fails only
\* after R + 1 non-success responses: one non-success response is followed by
\* a further attempt.
C11_BoundedRetry ==
    [][(LiveFetchFails \/ MissFetchFails)
          => NonSuccessResponses = Retries + 1]_vars

\* Thread PullLive has ended: its loop left at the break, or an exception
\* ended run
LiveEnded == pcLive \in {"L_done", "L_dead"}
\* Thread PullMissing has ended
MissEnded == pcMiss \in {"M_done", "M_dead"}

\* C12: cooperative shutdown.  Once the event is set, with both threads
\* scheduled fairly, both threads end, so t1.join() and t2.join() return.
C12_CooperativeShutdown == event ~> (LiveEnded /\ MissEnded)

\* Witness of C12: the event is set and both loops have left at their break.
C12_Witness ==
    /\ event
    /\ pcLive = "L_done"
    /\ pcMiss = "M_done"
    /\ compares >= 1
    /\ Len(missing_times) >= 1

\* C13: a failed backfill fetch is not fatal.  The cycle in which the fetch
\* of an entry failed goes through all its entries, completes its rewrite
\* and returns to the top of the loop; the thread ends only at the break.
C13_BackfillFailureNotFatal ==
    [][(RewriteStep /\ Len(failed_attempts) >= 1)
          => /\ idx > Len(missing_times)
             /\ pcMiss' = "M_check"]_vars

\* C14: a failed fetch of run does not advance state.  The fetch step that
\* got a non-success response leaves the Store, the queue file and the last
\* known time as they are and goes back to the event test of the loop.
C14_FetchFailureKeepsState ==
    [][(pcLive = "L_fetch" /\ LiveStep /\ NonSuccessResponses >= 1)
          => /\ UNCHANGED <<store, queueExists, queueFile, last_data_entry_time>>
             /\ pcLive' = "L_check"]_vars

\* Witness of C14: the first fetch of run failed (no save was logged as
\* failed and the worker has fetched nothing, so the fault is that fetch)
\* and run is back at the event test, with no comparison made.
C14_Witness ==
    /\ pcLive = "L_check"
    /\ compares = 0
    /\ data = None
    /\ faults >= 1
    /\ couldNotSave = {}
    /\ pcMiss = "M_check"
    /\ missing_times = <<>>

\* The lines this step appends to the queue file
AppendedLines ==
    {queueFile'[i] : i \in (Len(queueFile) + 1)..Len(queueFile')}

\* t lies strictly between a and b, whichever of the two is the later
StrictlyBetween(t, a, b) == (a < t /\ t < b) \/ (b < t /\ t < a)

\* C15: queue membership.  Every line that an iteration with last known time
\* T0 and batch time T1 appends is a minute strictly between T0 and T1:
\* never T0, never T1 (the record persisted in that iteration), never a
\* minute outside the interval.
C15_GapMembership ==
    [][(pcLive = "L_append" /\ LiveStep)
          => \A e \in AppendedLines :
                StrictlyBetween(StrpMinute(e), last_data_entry_time,
                                data.Minutes1UTC)]_vars

\* C16: a failed save is absorbed.  A save that was logged as failed left
\* the Store as it was: once the lock is released, the file it was to write
\* is absent or holds the record it held before, never an empty file (the
\* Store starts with records only).
C16_FailedSaveLeavesStore ==
    lock = "none"
       => \A f \in couldNotSave : f \in DOMAIN store => store[f] # EmptyFile

\* The positions at which a thread is inside a with lock block
LiveHolds == {"L_read", "L_append", "L_open", "L_write"}
MissHolds == {"M_read", "M_open", "M_write", "M_rewrite"}

\* C17: the lock is never held across a fetch.  A thread that is about to
\* call or is inside pull_data does not hold the lock, and a thread holds
\* the lock exactly while it is at one read or write of the Store or of the
\* queue file.
C17_NoLockAcrossFetch ==
    /\ pcLive = "L_fetch" => lock # "live"
    /\ pcMiss = "M_fetch" => lock # "missing"
    /\ lock = "live" <=> pcLive \in LiveHolds
    /\ lock = "missing" <=> pcMiss \in MissHolds

\* Witness of C17: the worker is at the fetch of its second entry while run
\* holds the lock for the write of a record.
C17_Witness ==
    /\ pcMiss = "M_fetch"
    /\ idx = 2
    /\ pcLive = "L_write"
    /\ lock = "live"

\* A step of the for loop of run_handle_missing that calls pull_data
MissFetchStep == pcMiss = "M_fetch" /\ (MissStep \/ idx' # idx)

\* C18: bounded work after the event is set.  run, at its event test with
\* the event set, leaves the loop (so it starts at most one further fetch);
\* run_handle_missing begins at most one call of pull_data for a queue entry
\* with the event set, not one for each entry left in the batch.  (The
\* second part is stated for the runs in which nothing has failed.)
C18_BoundedWorkAfterEvent ==
    [][/\ (pcLive = "L_check" /\ LiveStep /\ event) => pcLive' = "L_done"
       /\ (MissFetchStep /\ event /\ faults = 0) => ~lateEntry]_vars

MinOf(S) == CHOOSE m \in S : \A x \in S : m <= x

\* The time that run started from: the time of the last record found at
\* the start or, started on an empty Store, the time of the first batch
\* (the earliest record, all records being then those run has written)
Baseline ==
    IF last_data_entry # None THEN UtcFromTimestamp(last_data_entry)
    ELSE IF DOMAIN store = {} THEN last_data_entry_time
    ELSE MinOf(DOMAIN store)

\* The worker is in a cycle, between its read and its rewrite
InCycle == pcMiss \in {"M_fetch", "M_acq_s", "M_open", "M_write",
                       "M_acq_rw", "M_rewrite"}

\* Minute m is accounted for: a file of the Store, a line of the queue file,
\* or a line the worker has read and is processing
Covered(m) ==
    \/ StrpMinute(m) \in DOMAIN store
    \/ m \in SeqToSet(queueFile)
    \/ InCycle /\ m \in SeqToSet(missing_times)

\* C19: coverage.  With nothing having failed, whenever run is between two
\* iterations, every minute after the baseline and up to the last known time
\* is accounted for.
C19_Coverage ==
    (faults = 0 /\ pcLive \in {"L_check", "L_fetch", "L_compare", "L_done"})
       => \A m \in ApiMinutes :
             (Baseline < StrpMinute(m) /\ StrpMinute(m) <= last_data_entry_time)
                => Covered(m)

\* C20: long outages are fully enqueued.  With a baseline and a batch k
\* minutes after the last known time, k >= 1440, the number of lines
\* appended follows from the full k (the k - 1 minutes between the two
\* times, or k with the batch's own minute), not from k modulo one day.
C20_LongOutageFullyEnqueued ==
    [][(pcLive = "L_append" /\ LiveStep
          /\ data.Minutes1UTC - last_data_entry_time >= SecondsPerDay)
          => Len(queueFile') - Len(queueFile)
                >= (data.Minutes1UTC - last_data_entry_time)
                       \div SecondsPerMinute - 1]_vars

====
